---- MODULE Spec2Model ----
(***************************************************************************)
(* cupy/random/_bit_generator.pyx: a device-resident bit generator          *)
(* (BitGenerator, _cuRANDGenerator and its three variants) and the         *)
(* sampling Generator whose _launch_distribution_kernel splits an output   *)
(* array into chunks and launches one kernel per chunk.                    *)
(*                                                                         *)
(* Host threads call integers / beta / standard_exponential on Generators  *)
(* that share one bit generator.  A call is modelled in three steps: the   *)
(* operation up to the chunk loop, one loop iteration per step, and the    *)
(* operation's epilogue.  Python integers are unbounded, so the integer    *)
(* arguments of integers() are little-endian sequences of 16-bit limbs.    *)
(***************************************************************************)
EXTENDS Integers, Sequences, FiniteSets, TLC

\* ------------------------------------------------------------------ bounds
MaxStreams == 2      \* largest `size` (stream count) a generator is built with
MaxLen == 3          \* largest length of a one-dimensional output
MaxSide == 2         \* largest side of a two-dimensional output
Period == 3          \* the state buffer's advancement is counted modulo Period
ValMod == 4          \* kernels write sample values 1..ValMod

Threads == {1, 2}
Devices == {0, 1}
StreamPtrs == {1, 2}
Seeds == {7}

Min(a, b) == IF a <= b THEN a ELSE b

\* --------------------------------------------- unbounded Python integers
\* 2^k for a small k
RECURSIVE Pow2(_)
Pow2(k) == IF k = 0 THEN 1 ELSE 2 * Pow2(k - 1)

\* the radix of the limbs
Base == Pow2(16)

\* int.bit_length of one limb
RECURSIVE LimbBits(_)
LimbBits(x) == IF x = 0 THEN 0 ELSE 1 + LimbBits(x \div 2)

\* drop the high zero limbs
RECURSIVE Norm(_)
Norm(a) == IF a = <<>> THEN a
           ELSE IF a[Len(a)] = 0 THEN Norm(SubSeq(a, 1, Len(a) - 1)) ELSE a

LimbAt(a, k) == IF k <= Len(a) THEN a[k] ELSE 0

\* a < b on magnitudes: compare from the highest limb down
RECURSIVE MagLessFrom(_, _, _)
MagLessFrom(a, b, k) ==
    IF k = 0 THEN FALSE
    ELSE IF LimbAt(a, k) # LimbAt(b, k) THEN LimbAt(a, k) < LimbAt(b, k)
    ELSE MagLessFrom(a, b, k - 1)

MagLess(a, b) == MagLessFrom(a, b, IF Len(a) >= Len(b) THEN Len(a) ELSE Len(b))

\* a - b on magnitudes, for a >= b: schoolbook subtraction with borrow
RECURSIVE MagSubFrom(_, _, _, _)
MagSubFrom(a, b, k, borrow) ==
    IF k > Len(a) THEN <<>>
    ELSE LET d == a[k] - LimbAt(b, k) - borrow
         IN  IF d < 0 THEN <<d + Base>> \o MagSubFrom(a, b, k + 1, 1)
             ELSE <<d>> \o MagSubFrom(a, b, k + 1, 0)

MagSub(a, b) == Norm(MagSubFrom(a, b, 1, 0))

\* a + b on magnitudes
RECURSIVE MagAddFrom(_, _, _, _)
MagAddFrom(a, b, k, carry) ==
    IF k > Len(a) /\ k > Len(b) THEN (IF carry = 0 THEN <<>> ELSE <<carry>>)
    ELSE LET s == LimbAt(a, k) + LimbAt(b, k) + carry
         IN  <<s % Base>> \o MagAddFrom(a, b, k + 1, s \div Base)

MagAdd(a, b) == Norm(MagAddFrom(a, b, 1, 0))

\* a signed Python int
PyInt(neg, mag) == [neg |-> neg /\ mag # <<>>, mag |-> mag]

\* x - y
PySub(x, y) ==
    IF x.neg = y.neg
    THEN IF MagLess(x.mag, y.mag) THEN PyInt(~x.neg, MagSub(y.mag, x.mag))
         ELSE PyInt(x.neg, MagSub(x.mag, y.mag))
    ELSE PyInt(x.neg, MagAdd(x.mag, y.mag))

\* x <= y
PyLeq(x, y) ==
    IF x.neg # y.neg THEN x.neg
    ELSE IF x.neg THEN ~MagLess(x.mag, y.mag) ELSE ~MagLess(y.mag, x.mag)

PyOne == PyInt(FALSE, <<1>>)

\* x + y
PyAdd(x, y) == PySub(x, PyInt(~y.neg, y.mag))

\* a small non-negative machine integer as a Python int
PyOf(n) == PyInt(FALSE, IF n = 0 THEN <<>> ELSE <<n>>)

\* int.bit_length(): the bits of the magnitude, whatever the sign
BitLength(x) ==
    IF x.mag = <<>> THEN 0
    ELSE 16 * (Len(x.mag) - 1) + LimbBits(x.mag[Len(x.mag)])

\* (1 << k) - 1: k one bits
AllOnes(k) ==
    PyInt(FALSE, [j \in 1 .. (k \div 16) |-> Base - 1]
                 \o (IF k % 16 = 0 THEN <<>> ELSE <<Pow2(k % 16) - 1>>))

_UINT32_MAX == PyInt(FALSE, <<65535, 65535>>)
_UINT64_MAX == PyInt(FALSE, <<65535, 65535, 65535, 65535>>)

\* ------------------------------------------------------------ output arrays
\* An array is [id, shape, dtype, data]; data lists the elements in C order.
\* ndarray(shape, dtype) leaves the memory unwritten: Unwritten marks such an
\* element, and every value a kernel writes differs from it.
Unwritten == 0 - 1

NoId == <<0, "none">>
NoArray == [id |-> NoId, shape |-> <<>>, dtype |-> "none", data |-> <<>>]

\* the shapes ndarray(size if size is not None else (), dtype) is asked for:
\* size=None, an int, or a pair
Shapes == {<<>>} \cup {<<n>> : n \in 0 .. MaxLen}
                \cup {<<r, c>> : r \in 1 .. MaxSide, c \in 1 .. MaxSide}

\* ndarray.size: the product of the dimensions (1 for a 0-d array)
RECURSIVE SizeOf(_)
SizeOf(shape) == IF shape = <<>> THEN 1 ELSE Head(shape) * SizeOf(Tail(shape))

ndarray(id, shape, dtype) ==
    [id |-> id, shape |-> shape, dtype |-> dtype,
     data |-> [j \in 1 .. SizeOf(shape) |-> Unwritten]]

\* out[k:] for k >= 0: a view of the rows k.. of the first axis.  A 0-d array
\* has no axis to slice ("too many indices for array").
CanSlice(shape) == Len(shape) > 0

SliceOffset(shape, k) == Min(k, shape[1]) * SizeOf(Tail(shape))

SliceSize(shape, k) == (shape[1] - Min(k, shape[1])) * SizeOf(Tail(shape))

\* ------------------------------------------------------- the bit generator
Variants == {"CURAND_XOR_WOW", "CURAND_MRG32k3a", "CURAND_PHILOX_4x32_10"}

\* sizeof of the per-thread state structure of each variant
_type_size(generator) ==
    CASE generator = "CURAND_XOR_WOW" -> 48
      [] generator = "CURAND_MRG32k3a" -> 72
      [] generator = "CURAND_PHILOX_4x32_10" -> 64

\* numpy.random.SeedSequence(seed).generate_state(1, numpy.uint64)[0]:
\* a fixed function of the seed
ExpandSeed(seed) == seed

\* the address cupy.zeros gives the state buffer
StateAddress == 4096

\* the address cupy.zeros gives the state buffer of a second bit generator
TwinAddress == 8192

\* Construct with a buffer of one stream's state, whatever the size
ConstructOneStream(generator, seed, size, dev, strm) ==
    [generator |-> generator,
     _seed |-> ExpandSeed(seed),
     _size |-> size,
     _current_device |-> dev,
     lock |-> "unlocked",
     twin |-> <<>>,
     state_bytes |-> _type_size(generator),
     state_ptr |-> StateAddress,
     init_calls |-> <<[generator |-> generator, state_ptr |-> StateAddress,
                      seed |-> ExpandSeed(seed), size |-> size, strm |-> strm]>>]

\* BitGenerator.__init__ and _cuRANDGenerator.__init__ of a variant, run with
\* device dev and stream strm current: the fields of the new object and the
\* init_curand_generator calls made.  `twin` is empty when the threads'
\* Generators wrap this one object; it holds a second bit generator when
\* thread 2's Generator wraps its own.
Construct(generator, seed, size, dev, strm) ==
    [generator |-> generator,
     _seed |-> ExpandSeed(seed),
     _size |-> size,
     _current_device |-> dev,
     lock |-> "unlocked",
     twin |-> <<>>,
     state_bytes |-> _type_size(generator) * size,
     state_ptr |-> StateAddress,
     init_calls |-> <<[generator |-> generator, state_ptr |-> StateAddress,
                      seed |-> ExpandSeed(seed), size |-> size, strm |-> strm]>>]

\* The value a sampling kernel writes at position j of its chunk when the
\* state buffer has been advanced adv times: a fixed function of the seed,
\* the advancement and the position, never Unwritten.
Sample(seed, adv, j) == 1 + ((seed + adv + j) % ValMod)

\* What kernel `kernel` writes there: the interval kernels are given
\* args = <<mx, mask>> and write a value of 0 .. mx.
KernelValue(kernel, args, seed, adv, j) ==
    IF kernel \in {"interval_32", "interval_64"}
    THEN IF PyLeq(PyOf(Sample(seed, adv, j)), args[1])
         THEN Sample(seed, adv, j) ELSE 0
    ELSE Sample(seed, adv, j)

\* What an array of dtype `dtype` holds after value v is assigned to it:
\* the sample values stand for doubles, of which the even ones are
\* representable in single precision.
Cast(v, dtype) == IF dtype = "float32" THEN v + (v % 2) ELSE v

VARIABLES
    bg,         \* the bit generator (with its twin, if thread 2 has its own)
    stateAdv,   \* how often kernels have advanced each bit generator's state
                \* buffer, mod Period
    curDevice,  \* cupy.cuda.Device().id of each thread
    curStream,  \* stream.get_current_stream_ptr() of each thread
    pc,         \* where each thread is: "idle", "single", "loop", "epilogue",
                \* "done"
    status,     \* how each thread's last call ended
    call,       \* the arguments of each thread's current or last call
    y,          \* the array each thread's call allocated
    dest,       \* the `out` array each thread's call was given
    ret,        \* the array each thread's last call returned
    loc,        \* the locals of _launch_distribution_kernel
    log         \* the kernel invocations of the threads' current or last calls

vars == <<bg, stateAdv, curDevice, curStream, pc, status, call, y, dest, ret,
          loc, log>>

NoCall == [name |-> "none", kernel |-> "none", args |-> <<>>,
           low |-> PyOf(0), high |-> PyOf(0), endpoint |-> FALSE,
           method |-> "none"]
NoLoc == [strm |-> 0, state |-> 0, generator |-> "none", bsize |-> 0,
          chunks |-> 0, i |-> 0]

Init ==
    /\ \E generator \in Variants, seed \in Seeds, size \in 0 .. MaxStreams,
          dev \in Devices :
          /\ bg = Construct(generator, seed, size, dev, 1)
          /\ curDevice = [t \in Threads |-> dev]
    /\ stateAdv = [g \in Threads |-> 0]
    /\ curStream = [t \in Threads |-> 1]
    /\ pc = [t \in Threads |-> "idle"]
    /\ status = [t \in Threads |-> "none"]
    /\ call = [t \in Threads |-> NoCall]
    /\ y = [t \in Threads |-> NoArray]
    /\ dest = [t \in Threads |-> NoArray]
    /\ ret = [t \in Threads |-> NoArray]
    /\ loc = [t \in Threads |-> NoLoc]
    /\ log = <<>>

\* the bit generator thread t's Generator wraps
BitGenOf(t) == IF bg.twin = <<>> \/ t = 1 THEN bg ELSE bg.twin[1]

\* GenOf with one state buffer behind every bit generator
GenOfShared(t) == 1

\* which state buffer thread t's kernels advance: self._state belongs to the
\* instance
GenOf(t) == IF bg.twin = <<>> THEN 1 ELSE t

\* ------------------------------------------------------------ the ambient
\* cupy.cuda.Device(d).use() between two calls of thread t
UseDevice(t, d) ==
    /\ pc[t] = "idle"
    /\ d # curDevice[t]
    /\ curDevice' = [curDevice EXCEPT ![t] = d]
    /\ UNCHANGED <<bg, stateAdv, curStream, pc, status, call, y, dest, ret,
                   loc, log>>

\* a different stream becomes thread t's current stream between two calls
UseStream(t, s) ==
    /\ pc[t] = "idle"
    /\ s # curStream[t]
    /\ curStream' = [curStream EXCEPT ![t] = s]
    /\ UNCHANGED <<bg, stateAdv, curDevice, pc, status, call, y, dest, ret,
                   loc, log>>

\* --------------------------------------------------------- BitGenerator
\* _check_device with the comparison left out: it never raises
CheckDeviceSkipped(t) == FALSE

\* BitGenerator._check_device: does it raise for thread t?
_check_device(t) == curDevice[t] # BitGenOf(t)._current_device

\* _cuRANDGenerator.state_size of thread t's bit generator
state_size(t) == BitGenOf(t)._size

\* ------------------------------------------- _launch_distribution_kernel
\* NumChunks with the round-up forgotten
NumChunksFloor(size, bsize) == size \div bsize

\* chunks = (out.size + bsize - 1) // bsize
NumChunks(size, bsize) == (size + bsize - 1) \div bsize

\* ChunkOffset with the chunks taken from the last one down
ChunkOffsetReversed(shape, i, bsize) ==
    SliceOffset(shape, (NumChunks(SizeOf(shape), bsize) - 1 - i) * bsize)

\* chunk = out[i*bsize:]: the element offset of chunk.data.ptr in out
ChunkOffset(shape, i, bsize) == SliceOffset(shape, i * bsize)

\* chunk = out[i*bsize:]: chunk.size
\* ChunkSize of a slice that starts at the front of the array again
ChunkSizeWhole(shape, i, bsize) == SizeOf(shape)

\* chunk.size: the elements of out[i*bsize:]
ChunkSize(shape, i, bsize) == SliceSize(shape, i * bsize)

\* func(generator, state, y_ptr, size, strm, *args), issued by thread t as
\* invocation i of its call: the record of the invocation
Invocation(t, i, off, size, l) ==
    [t |-> t, i |-> i, kernel |-> call'[t].kernel, generator |-> l.generator,
     state |-> l.state, off |-> off, size |-> size, strm |-> l.strm,
     args |-> call'[t].args, dev |-> curDevice[t],
     adv |-> stateAdv[GenOf(t)]]

\* the kernel fills `size` elements of thread t's array from element `off`
\* and advances the state buffer
KernelEffect(t, arr, off, size) ==
    /\ y' = [y EXCEPT ![t] = [arr EXCEPT !.data =
                [j \in 1 .. Len(arr.data) |->
                    IF off < j /\ j <= off + size
                    THEN KernelValue(call'[t].kernel, call'[t].args,
                                     BitGenOf(t)._seed, stateAdv[GenOf(t)],
                                     j - off)
                    ELSE arr.data[j]]]]
    /\ stateAdv' = [stateAdv EXCEPT ![GenOf(t)] = (@ + 1) % Period]

\* the entries of the log that are not thread t's
Others(t) == SelectSeq(log, LAMBDA e : e.t # t)

\* Do the extra arguments convert to the kernel's C parameter types?  The
\* interval kernels take mx and mask as unsigned integers.
ArgsConvert(kernel, args) ==
    kernel \in {"interval_32", "interval_64"} => ~args[1].neg

\* IsUnbounded with the test left out
IsUnboundedNever(bsize) == FALSE

\* if bsize == 0
IsUnbounded(bsize) == bsize = 0

\* AfterKernelError with the failure swallowed and the chunk tried again
RetryAfterKernelError == "loop"

\* Where a thread is after func(...) raised: nothing in the loop or in the
\* operations catches it, so the call is over.
AfterKernelError == "done"

\* Lines 169-181 for thread t, whose operation has just allocated `arr`:
\* read the stream, fetch the state pointer (device check), read size,
\* generator and bsize, then go to the single launch (bsize = 0) or compute
\* the chunk count and enter the loop.  call'[t] is set by the operation.
_launch_distribution_kernel(t, arr) ==
    /\ y' = [y EXCEPT ![t] = arr]
    /\ log' = log
    /\ UNCHANGED stateAdv
    /\ IF _check_device(t)
       THEN /\ status' = [status EXCEPT ![t] = "RuntimeError"]
            /\ pc' = [pc EXCEPT ![t] = "done"]
            /\ loc' = [loc EXCEPT ![t] = [NoLoc EXCEPT !.strm = curStream[t]]]
       ELSE LET bsize == state_size(t)
                l == [strm |-> curStream[t], state |-> BitGenOf(t).state_ptr,
                      generator |-> BitGenOf(t).generator, bsize |-> bsize,
                      chunks |-> IF bsize = 0 THEN 0
                                 ELSE NumChunks(SizeOf(arr.shape), bsize),
                      i |-> 0]
            IN  /\ loc' = [loc EXCEPT ![t] = l]
                /\ IF IsUnbounded(bsize)
                   THEN /\ status' = [status EXCEPT ![t] = "running"]
                        /\ pc' = [pc EXCEPT ![t] = "single"]
                   ELSE IF bsize = 0
                   THEN \* (out.size + bsize - 1) // 0
                        /\ status' = [status EXCEPT ![t] = "ZeroDivisionError"]
                        /\ pc' = [pc EXCEPT ![t] = "done"]
                   ELSE /\ status' = [status EXCEPT ![t] = "running"]
                        /\ pc' = [pc EXCEPT ![t] =
                                IF l.chunks = 0 THEN "epilogue" ELSE "loop"]

\* Line 179 by thread t: the one invocation for the whole array.  `ok` tells
\* whether the kernel invocation succeeds.
LaunchWhole(t, ok) ==
    /\ pc[t] = "single"
    /\ UNCHANGED <<bg, curDevice, curStream, call, dest, ret, loc>>
    /\ IF ~ArgsConvert(call[t].kernel, call[t].args)
       THEN /\ status' = [status EXCEPT ![t] = "OverflowError"]
            /\ pc' = [pc EXCEPT ![t] = "done"]
            /\ UNCHANGED <<stateAdv, y, log>>
       ELSE IF ~ok
       THEN /\ status' = [status EXCEPT ![t] = "KernelInvocationError"]
            /\ pc' = [pc EXCEPT ![t] = AfterKernelError]
            /\ UNCHANGED <<stateAdv, y, log>>
       ELSE /\ log' = Append(log,
                        Invocation(t, 0, 0, SizeOf(y[t].shape), loc[t]))
            /\ KernelEffect(t, y[t], 0, SizeOf(y[t].shape))
            /\ pc' = [pc EXCEPT ![t] = "epilogue"]
            /\ UNCHANGED status

\* One iteration of the loop of lines 182-185 by thread t.  `ok` tells
\* whether the kernel invocation succeeds.
LaunchChunk(t, ok) ==
    /\ pc[t] = "loop"
    /\ loc[t].i < loc[t].chunks
    /\ UNCHANGED <<bg, curDevice, curStream, call, dest, ret>>
    /\ IF ~CanSlice(y[t].shape)
       THEN /\ status' = [status EXCEPT ![t] = "IndexError"]
            /\ pc' = [pc EXCEPT ![t] = "done"]
            /\ UNCHANGED <<stateAdv, y, loc, log>>
       ELSE IF ~ArgsConvert(call[t].kernel, call[t].args)
       THEN /\ status' = [status EXCEPT ![t] = "OverflowError"]
            /\ pc' = [pc EXCEPT ![t] = "done"]
            /\ UNCHANGED <<stateAdv, y, loc, log>>
       ELSE IF ~ok
       THEN /\ status' = [status EXCEPT ![t] = "KernelInvocationError"]
            /\ pc' = [pc EXCEPT ![t] = AfterKernelError]
            /\ UNCHANGED <<stateAdv, y, loc, log>>
       ELSE LET l == loc[t]
                off == ChunkOffset(y[t].shape, l.i, l.bsize)
                size == ChunkSize(y[t].shape, l.i, l.bsize)
            IN  /\ log' = Append(log, Invocation(t, l.i, off, size, l))
                /\ KernelEffect(t, y[t], off, size)
                /\ loc' = [loc EXCEPT ![t].i = l.i + 1]
                /\ pc' = [pc EXCEPT ![t] =
                             IF l.i + 1 = l.chunks THEN "epilogue" ELSE "loop"]
                /\ UNCHANGED status

\* ------------------------------------------------------------- Generator
\* An operation of thread t fails before it allocates anything.
Raise(t, error) ==
    /\ status' = [status EXCEPT ![t] = error]
    /\ pc' = [pc EXCEPT ![t] = "done"]
    /\ y' = [y EXCEPT ![t] = NoArray]
    /\ loc' = [loc EXCEPT ![t] = NoLoc]
    /\ log' = log
    /\ UNCHANGED stateAdv

\* the arguments integers() is called with
\* low: 0 and 3; high: 0, 1, 10, 2^31, 2^32, 2^40, 2^64 and 2^65
IntLows == {PyOf(0), PyOf(3)}
IntHighs == {PyOf(0), PyOf(1), PyOf(10), PyInt(FALSE, <<0, 32768>>),
             PyInt(FALSE, <<0, 0, 1>>), PyInt(FALSE, <<0, 0, 256>>),
             PyInt(FALSE, <<0, 0, 0, 0, 1>>), PyInt(FALSE, <<0, 0, 0, 0, 2>>)}

\* diff = high - low, less 1 unless endpoint
IntegersDiff(low, high, endpoint) ==
    IF endpoint THEN PySub(high, low) ELSE PySub(PySub(high, low), PyOne)

\* IntegersMask with one bit more than diff has
IntegersMaskWide(diff) == AllOnes(BitLength(diff) + 1)

\* mask = (1 << diff.bit_length()) - 1
IntegersMask(diff) == AllOnes(BitLength(diff))

\* Generator.integers up to the chunk loop
integers(t, low, high, shape, endpoint) ==
    /\ pc[t] = "idle"
    /\ dest' = [dest EXCEPT ![t] = NoArray]
    /\ ret' = [ret EXCEPT ![t] = NoArray]
    /\ UNCHANGED <<bg, curDevice, curStream>>
    /\ LET diff == IntegersDiff(low, high, endpoint)
           mask == IntegersMask(diff)
           dtype == IF PyLeq(diff, _UINT32_MAX) THEN "uint32"
                    ELSE IF PyLeq(diff, _UINT64_MAX) THEN "uint64"
                    ELSE "none"
           c == [NoCall EXCEPT !.name = "integers", !.low = low,
                    !.high = high, !.endpoint = endpoint,
                    !.args = <<diff, mask>>,
                    !.kernel = IF dtype = "uint32" THEN "interval_32"
                               ELSE "interval_64"]
       IN  /\ call' = [call EXCEPT ![t] = c]
           /\ IF ~PyLeq(mask, _UINT64_MAX)
              THEN \* cdef uint64_t mask = ...: the value does not fit
                   Raise(t, "OverflowError")
              ELSE IF dtype = "none"
              THEN Raise(t, "ValueError")
              ELSE _launch_distribution_kernel(t,
                       ndarray(<<t, "y">>, shape, dtype))

\* the `out` arrays standard_exponential is given by thread t
Dests(t) ==
    {NoArray} \cup
    {[id |-> <<t, "out">>, shape |-> <<n>>, dtype |-> d,
      data |-> [j \in 1 .. n |-> 0]] :
        n \in 0 .. MaxLen, d \in {"float64", "float32"}}

Methods == {"inv", "zig", "other"}

\* IsZiggurat testing for a name no caller passes
IsZigguratLongName(method) == method = "ziggurat"

\* if method == 'zig'
IsZiggurat(method) == method = "zig"

\* Generator.standard_exponential up to the chunk loop
standard_exponential(t, shape, method, out) ==
    /\ pc[t] = "idle"
    /\ call' = [call EXCEPT ![t] = [NoCall EXCEPT
                   !.name = "standard_exponential", !.kernel = "exponential",
                   !.method = method]]
    /\ dest' = [dest EXCEPT ![t] = out]
    /\ ret' = [ret EXCEPT ![t] = NoArray]
    /\ UNCHANGED <<bg, curDevice, curStream>>
    /\ IF IsZiggurat(method)
       THEN Raise(t, "NotImplementedError")
       ELSE _launch_distribution_kernel(t,
                ndarray(<<t, "y">>, shape, "float64"))

\* out[...] = y: can src be broadcast to the one-dimensional dst?
Broadcasts(src, dst) ==
    \/ Len(src) = 0
    \/ Len(src) = 1 /\ (src[1] = dst[1] \/ src[1] = 1)

\* Assigned with the copy left out
AssignedNothing(dst, src) == dst

\* out[...] = y: the elements of dst afterwards
Assigned(dst, src) ==
    [dst EXCEPT !.data = [j \in 1 .. Len(dst.data) |->
        Cast(src.data[IF Len(src.data) = 1 THEN 1 ELSE j], dst.dtype)]]

\* Generator.beta up to the chunk loop
beta(t, a, b, shape) ==
    /\ pc[t] = "idle"
    /\ call' = [call EXCEPT ![t] = [NoCall EXCEPT !.name = "beta",
                   !.kernel = "beta", !.args = <<a, b>>]]
    /\ dest' = [dest EXCEPT ![t] = NoArray]
    /\ ret' = [ret EXCEPT ![t] = NoArray]
    /\ _launch_distribution_kernel(t, ndarray(<<t, "y">>, shape, "float64"))
    /\ UNCHANGED <<bg, curDevice, curStream>>

\* The end of a call of thread t: what follows _launch_distribution_kernel in
\* the operation.
Return(t) ==
    /\ pc[t] = "epilogue"
    /\ pc' = [pc EXCEPT ![t] = "done"]
    /\ UNCHANGED <<bg, stateAdv, curDevice, curStream, call, y, loc, log>>
    /\ CASE call[t].name = "integers" ->
              \* return low + y
              /\ ret' = [ret EXCEPT ![t] = [y[t] EXCEPT !.id = <<t, "sum">>,
                           !.data = [j \in 1 .. Len(y[t].data) |->
                               PyAdd(call[t].low, PyOf(y[t].data[j]))]]]
              /\ status' = [status EXCEPT ![t] = "ok"]
              /\ UNCHANGED dest
         [] call[t].name = "beta" ->
              /\ ret' = [ret EXCEPT ![t] = y[t]]
              /\ status' = [status EXCEPT ![t] = "ok"]
              /\ UNCHANGED dest
         [] call[t].name = "standard_exponential" ->
              IF dest[t] = NoArray
              THEN /\ ret' = [ret EXCEPT ![t] = y[t]]
                   /\ status' = [status EXCEPT ![t] = "ok"]
                   /\ UNCHANGED dest
              ELSE IF Broadcasts(y[t].shape, dest[t].shape)
              THEN /\ dest' = [dest EXCEPT ![t] = Assigned(dest[t], y[t])]
                   /\ ret' = [ret EXCEPT ![t] = dest'[t]]
                   /\ status' = [status EXCEPT ![t] = "ok"]
              ELSE /\ status' = [status EXCEPT ![t] = "ValueError"]
                   /\ UNCHANGED <<dest, ret>>

\* The caller of thread t drops what its last call left; the thread is ready
\* for its next call.
Discard(t) ==
    /\ pc[t] = "done"
    /\ pc' = [pc EXCEPT ![t] = "idle"]
    /\ status' = [status EXCEPT ![t] = "none"]
    /\ call' = [call EXCEPT ![t] = NoCall]
    /\ y' = [y EXCEPT ![t] = NoArray]
    /\ dest' = [dest EXCEPT ![t] = NoArray]
    /\ ret' = [ret EXCEPT ![t] = NoArray]
    /\ loc' = [loc EXCEPT ![t] = NoLoc]
    /\ log' = Others(t)
    /\ UNCHANGED <<bg, stateAdv, curDevice, curStream>>

\* the sampling calls and steps of thread t
Step(t) ==
    \/ \E d \in Devices : UseDevice(t, d)
    \/ \E s \in StreamPtrs : UseStream(t, s)
    \/ \E low \in IntLows, high \in IntHighs, shape \in Shapes,
          endpoint \in BOOLEAN : integers(t, low, high, shape, endpoint)
    \/ \E shape \in Shapes : beta(t, 2, 3, shape)
    \/ \E shape \in Shapes, method \in Methods, out \in Dests(t) :
          /\ out # NoArray => Len(shape) <= 1
          /\ standard_exponential(t, shape, method, out)
    \/ \E ok \in BOOLEAN : LaunchWhole(t, ok)
    \/ \E ok \in BOOLEAN : LaunchChunk(t, ok)
    \/ Return(t)
    \/ Discard(t)

Next == Step(1)

Spec == Init /\ [][Next]_vars

\* Two threads sample through Generators that share the bit generator: each
\* calls beta for a one-dimensional array, over and over.  No step of a call
\* takes bg.lock, so the steps of the two calls are free to alternate.
StepConc(t) ==
    \/ \E n \in 0 .. MaxLen : beta(t, 2, 3, <<n>>)
    \/ LaunchWhole(t, TRUE)
    \/ LaunchChunk(t, TRUE)
    \/ Return(t)
    \/ Discard(t)

NextConc == \E t \in Threads : StepConc(t)

SpecConc == Init /\ [][NextConc]_vars

\* Two bit generators of the same variant, seed and size, each wrapped by one
\* thread's Generator: the first constructed on stream 1, the second on
\* stream 2 of the same or of another device.
InitPair ==
    /\ \E generator \in Variants, seed \in Seeds, size \in 0 .. MaxStreams,
          dev \in Devices, dev2 \in Devices :
          LET other == Construct(generator, seed, size, dev2, 2)
          IN  /\ bg = [Construct(generator, seed, size, dev, 1) EXCEPT
                          !.twin = <<[other EXCEPT
                              !.state_ptr = TwinAddress,
                              !.init_calls[1].state_ptr = TwinAddress]>>]
              /\ curDevice = [t \in Threads |-> IF t = 1 THEN dev ELSE dev2]
              /\ curStream = [t \in Threads |-> t]
    /\ stateAdv = [g \in Threads |-> 0]
    /\ pc = [t \in Threads |-> "idle"]
    /\ status = [t \in Threads |-> "none"]
    /\ call = [t \in Threads |-> NoCall]
    /\ y = [t \in Threads |-> NoArray]
    /\ dest = [t \in Threads |-> NoArray]
    /\ ret = [t \in Threads |-> NoArray]
    /\ loc = [t \in Threads |-> NoLoc]
    /\ log = <<>>

\* the arguments of the calls made on the pair: scalar and one-dimensional
\* sizes; high = 1 and 2^40; the inverse and the ziggurat method; no
\* destination or a float32 one
PairShapes == {shape \in Shapes : Len(shape) <= 1}
PairHighs == {PyOf(1), PyInt(FALSE, <<0, 0, 256>>)}
PairMethods == {"inv", "zig"}
PairDests(t) == {out \in Dests(t) : out = NoArray \/ out.dtype = "float32"}

\* a sampling call of thread t
Begin(t) ==
    \/ \E low \in IntLows, high \in PairHighs, shape \in PairShapes,
          endpoint \in BOOLEAN : integers(t, low, high, shape, endpoint)
    \/ \E shape \in PairShapes : beta(t, 2, 3, shape)
    \/ \E shape \in PairShapes, method \in PairMethods, out \in PairDests(t) :
          standard_exponential(t, shape, method, out)

\* Thread 2 begins the call thread 1 is making or has made: the same
\* operation with the same arguments (a call that failed before it allocated
\* its array did not get as far as looking at the size).
Repeat ==
    /\ pc[1] # "idle"
    /\ \E shape \in (IF y[1] = NoArray THEN PairShapes ELSE {y[1].shape}) :
          CASE call[1].name = "integers" ->
                 integers(2, call[1].low, call[1].high, shape,
                          call[1].endpoint)
            [] call[1].name = "beta" ->
                 beta(2, call[1].args[1], call[1].args[2], shape)
            [] call[1].name = "standard_exponential" ->
                 \E out \in PairDests(2) :
                     /\ (out = NoArray) = (dest[1] = NoArray)
                     /\ out.shape = dest[1].shape
                     /\ out.dtype = dest[1].dtype
                     /\ standard_exponential(2, shape, call[1].method, out)

\* Thread 1 makes a call on its bit generator and thread 2 the same call on
\* its own, their steps interleaved in any order; both drop the results
\* before the next call.  Between calls each thread may change its current
\* stream.  The threads stay on their devices and the kernels succeed.
NextPair ==
    \/ pc[2] = "idle" /\ Begin(1)
    \/ Repeat
    \/ \E t \in Threads, s \in StreamPtrs : UseStream(t, s)
    \/ \E t \in Threads : LaunchWhole(t, TRUE)
    \/ \E t \in Threads : LaunchChunk(t, TRUE)
    \/ \E t \in Threads : Return(t)
    \/ pc[2] = "done" /\ Discard(1)
    \/ pc[1] = "idle" /\ Discard(2)

SpecPair == InitPair /\ [][NextPair]_vars

\* ================================================================ claims
\* the invocations of thread t's current or last call, in the order issued
MyLog(t) == SelectSeq(log, LAMBDA e : e.t = t)

\* the element count of the array thread t's call allocated
OutSize(t) == SizeOf(y[t].shape)

\* _launch_distribution_kernel has returned to thread t's operation
DispatchReturned(t) ==
    pc[t] = "epilogue" \/ (pc[t] = "done" /\ status[t] = "ok")

\* C1 (as claimed): with stream count S > 0, invocation i of a dispatch over
\* N elements gets the pointer at element offset i*S and
\* chunkSize = min(S, N - i*S).
C1_ChunkTiling ==
    \A k \in 1 .. Len(log) :
        LET e == log[k]
            S == bg._size
            N == OutSize(e.t)
        IN  S > 0 => /\ e.off = e.i * S
                     /\ e.size = Min(S, N - e.i * S)

\* the call of _launch_distribution_kernel by thread t is over: it has
\* returned, or it has failed in its own slicing of the array
DispatchEnded(t) ==
    DispatchReturned(t) \/ (pc[t] = "done" /\ status[t] = "IndexError")

\* C2 (as claimed): for every stream count S > 0 and every N >= 0, one call
\* of _launch_distribution_kernel over N elements issues exactly ceil(N/S)
\* invocations: the least n with n*S >= N.
C2_InvocationCount ==
    \A t \in Threads :
        DispatchEnded(t) /\ bg._size > 0 =>
            LET n == Len(MyLog(t))
            IN  /\ n * bg._size >= OutSize(t)
                /\ n > 0 => (n - 1) * bg._size < OutSize(t)

\* C3 (as claimed): for every S > 0 and every N >= 0 with N <= S, a dispatch
\* over N elements issues exactly one invocation, at offset 0 with
\* chunkSize N.
C3_SingleLaunchAnySize ==
    \A t \in Threads :
        DispatchEnded(t) /\ bg._size > 0 /\ OutSize(t) <= bg._size =>
            /\ Len(MyLog(t)) = 1
            /\ MyLog(t)[1].off = 0
            /\ MyLog(t)[1].size = OutSize(t)

\* C4: when a dispatch with S > 0 has returned, every element of the output
\* lies in the range of one of its invocations and has been written.
C4_FullPopulation ==
    \A t \in Threads :
        DispatchReturned(t) /\ bg._size > 0 =>
            \A j \in 1 .. OutSize(t) :
                /\ \E k \in 1 .. Len(MyLog(t)) :
                      /\ MyLog(t)[k].off < j
                      /\ j <= MyLog(t)[k].off + MyLog(t)[k].size
                /\ y[t].data[j] # Unwritten

\* C4 witness: a returned dispatch over more elements than there are streams
C4_Witness ==
    \E t \in Threads :
        /\ DispatchReturned(t) /\ bg._size > 0
        /\ OutSize(t) > bg._size
        /\ \A j \in 1 .. OutSize(t) : y[t].data[j] # Unwritten

\* C5: the invocations of one dispatch are issued in increasing chunk order
\* (the k-th issued is chunk k-1, and the offsets never go back), and each
\* gets the algorithm tag, state pointer and stream read at the start.
C5_LaunchOrder ==
    \A t \in Threads :
        LET L == MyLog(t)
        IN  /\ \A k \in 1 .. Len(L) :
                  /\ L[k].i = k - 1
                  /\ L[k].generator = bg.generator
                  /\ L[k].state = bg.state_ptr
                  /\ L[k].strm = loc[t].strm
                  /\ L[k].strm = curStream[t]
            /\ \A k \in 1 .. Len(L) - 1 : L[k].off <= L[k + 1].off
            /\ \A k \in 1 .. Len(L) - 1 :
                  Len(y[t].shape) = 1 => L[k].off < L[k + 1].off

\* C5 witness: a dispatch that has issued three invocations on stream 2
C5_Witness ==
    \E t \in Threads :
        /\ Len(MyLog(t)) >= 3
        /\ MyLog(t)[3].strm = 2

\* C6 (as claimed): the chunk launches of two sampling calls on the same bit
\* generator never interleave: all invocations of one call are issued before
\* the first of the other, so each call's invocations lie together in the
\* order of issue.
C6_NoInterleaving ==
    \A k1, k2, k3 \in 1 .. Len(log) :
        k1 < k2 /\ k2 < k3 /\ log[k1].t = log[k3].t => log[k2].t = log[k1].t

\* C7 (as claimed): an operation that fails with the cross-device error has
\* not allocated an output array at that moment.
C7_NoAllocationOnDeviceError ==
    \A t \in Threads : status[t] = "RuntimeError" => y[t] = NoArray

\* C8: the state pointer is handed out, and a kernel is invoked, only with the
\* owning device active; a dispatch started on another device has issued no
\* invocation when it fails, and the failing step leaves the state buffer and
\* the invocations issued so far as they were.
C8_DeviceCheckFirst ==
    /\ [](/\ \A t \in Threads :
                loc[t].state # 0 => curDevice[t] = bg._current_device
          /\ \A k \in 1 .. Len(log) : log[k].dev = bg._current_device
          /\ \A t \in Threads :
                curDevice[t] # bg._current_device => MyLog(t) = <<>>
          /\ \A t \in Threads :
                status[t] = "RuntimeError" => MyLog(t) = <<>>)
    /\ [][\A t \in Threads :
             status'[t] = "RuntimeError" /\ status[t] # "RuntimeError" =>
                 stateAdv' = stateAdv /\ log' = log]_vars

\* C8 witness: a call for a non-empty array has failed on a foreign device
C8_Witness ==
    \E t \in Threads :
        /\ pc[t] = "done" /\ status[t] = "RuntimeError"
        /\ curDevice[t] # bg._current_device
        /\ bg._size > 0 /\ OutSize(t) > 0
        /\ stateAdv[1] > 0

\* C9: standard_exponential with the ziggurat method ('zig') fails with the
\* unsupported-method error for every size and destination; it has allocated
\* no array and issued no invocation, and the step leaves the state buffer as
\* it was.
C9_ZigguratRejected ==
    /\ [](\A t \in Threads :
             call[t].name = "standard_exponential" /\ call[t].method = "zig" =>
                 /\ pc[t] = "done"
                 /\ status[t] = "NotImplementedError"
                 /\ y[t] = NoArray
                 /\ ret[t] = NoArray
                 /\ MyLog(t) = <<>>)
    /\ [][\A t \in Threads :
             call'[t].method = "zig" /\ call[t].method # "zig" =>
                 stateAdv' = stateAdv /\ log' = log]_vars

\* C9 witness: a ziggurat call with a destination, on the owning device with
\* streams to launch on, has been rejected
C9_Witness ==
    \E t \in Threads :
        /\ call[t].method = "zig" /\ status[t] = "NotImplementedError"
        /\ dest[t] # NoArray /\ Len(dest[t].data) > 0
        /\ curDevice[t] = bg._current_device /\ bg._size > 0

\* the element of the fresh array that element j of the destination is
\* assigned from (a one-element array is broadcast)
Corresponding(t, j) == y[t].data[IF Len(y[t].data) = 1 THEN 1 ELSE j]

\* standard_exponential of thread t has returned
ExponentialReturned(t) ==
    call[t].name = "standard_exponential" /\ pc[t] = "done" /\ status[t] = "ok"

\* C10 (as claimed): with a destination, standard_exponential returns that
\* destination and each of its elements equals the corresponding element of
\* the fresh array; without one it returns the fresh array.
C10_DestinationEqualsFresh ==
    \A t \in Threads :
        ExponentialReturned(t) =>
            IF dest[t] = NoArray THEN ret[t] = y[t]
            ELSE /\ ret[t].id = dest[t].id
                 /\ \A j \in 1 .. Len(dest[t].data) :
                       dest[t].data[j] = Corresponding(t, j)

\* C10 (amended): with a destination, standard_exponential returns that
\* destination, each element of which is the corresponding element of the
\* fresh array converted to the destination's element type, and so equal to
\* it when the destination has the fresh array's element type; without a
\* destination it returns the fresh array.
C10_DestinationReturned ==
    \A t \in Threads :
        ExponentialReturned(t) =>
            IF dest[t] = NoArray THEN ret[t] = y[t] /\ ret[t].id = <<t, "y">>
            ELSE /\ ret[t] = dest[t]
                 /\ ret[t].id = <<t, "out">>
                 /\ \A j \in 1 .. Len(dest[t].data) :
                       /\ dest[t].data[j] = Cast(Corresponding(t, j), dest[t].dtype)
                       /\ dest[t].dtype = y[t].dtype =>
                             dest[t].data[j] = Corresponding(t, j)
                       /\ dest[t].data[j] # Unwritten

\* C10 witness: a call with a destination of the fresh array's type and more
\* than one element has returned it
C10_Witness ==
    \E t \in Threads :
        /\ ExponentialReturned(t)
        /\ dest[t] # NoArray /\ dest[t].dtype = "float64"
        /\ Len(dest[t].data) >= 2 /\ Len(y[t].data) >= 2
        /\ ret[t].id = <<t, "out">>

\* the difference and the mask of thread t's integers call
Diff(t) == call[t].args[1]

Mask(t) == call[t].args[2]

\* C11: in integers, diff is high - low with endpoint and high - low - 1
\* without; for diff in the unsigned 64-bit range the mask is
\* (1 << bitLength(diff)) - 1, the smallest number 2^k - 1 that is >= diff
\* (for diff > 0 the all-ones number one bit shorter is < diff), and every
\* invocation is passed diff and that mask; low = 0, high = 10 gives diff 9,
\* mask 15 without endpoint and diff 10, mask 15 with it.
C11_RejectionMask ==
    \A t \in Threads :
        call[t].name = "integers" =>
            LET c == call[t]
                k == BitLength(Mask(t))
            IN  /\ PyAdd(PyAdd(Diff(t), c.low),
                         IF c.endpoint THEN PyOf(0) ELSE PyOne) = c.high
                /\ ~Diff(t).neg /\ PyLeq(Diff(t), _UINT64_MAX) =>
                       /\ k = BitLength(Diff(t))
                       /\ Mask(t) = AllOnes(k)
                       /\ PyLeq(Diff(t), Mask(t))
                       /\ k > 0 => ~PyLeq(Diff(t), AllOnes(k - 1))
                       /\ \A j \in 1 .. Len(MyLog(t)) :
                             MyLog(t)[j].args = <<Diff(t), Mask(t)>>
                /\ c.low = PyOf(0) /\ c.high = PyOf(10) =>
                       /\ Mask(t) = PyOf(15)
                       /\ Diff(t) = IF c.endpoint THEN PyOf(10) ELSE PyOf(9)

\* C11 witness: integers(0, 10, endpoint=True) has invoked the kernel with
\* diff 10 and mask 15
C11_Witness ==
    \E t \in Threads :
        /\ call[t].name = "integers" /\ call[t].endpoint
        /\ call[t].low = PyOf(0) /\ call[t].high = PyOf(10)
        /\ MyLog(t) # <<>>
        /\ MyLog(t)[1].args = <<PyOf(10), PyOf(15)>>

\* C12 (as claimed): integers allocates a 32-bit array and dispatches the
\* 32-bit interval kernel exactly when 0 <= diff <= 2^32 - 1, and a 64-bit
\* array and the 64-bit kernel exactly when 2^32 - 1 < diff <= 2^64 - 1.
C12_WidthSelection ==
    \A t \in Threads :
        call[t].name = "integers" =>
            LET dispatched == y[t] # NoArray
            IN  /\ (dispatched /\ call[t].kernel = "interval_32"
                               /\ y[t].dtype = "uint32")
                      = (~Diff(t).neg /\ PyLeq(Diff(t), _UINT32_MAX))
                /\ (dispatched /\ call[t].kernel = "interval_64"
                               /\ y[t].dtype = "uint64")
                      = (~PyLeq(Diff(t), _UINT32_MAX)
                            /\ PyLeq(Diff(t), _UINT64_MAX))

\* C13 (as claimed): integers with diff > 2^64 - 1 fails with the
\* range-overflow error (ValueError), having allocated no array and issued
\* no invocation.
C13_RangeOverflow ==
    \A t \in Threads :
        call[t].name = "integers" /\ ~PyLeq(Diff(t), _UINT64_MAX) =>
            /\ status[t] = "ValueError"
            /\ y[t] = NoArray
            /\ MyLog(t) = <<>>

\* C14: the state buffer of each variant has
\* _type_size(generator) * size bytes, with _type_size > 0, and the
\* initialization kernel was invoked exactly once, at construction, on that
\* buffer; no step of a sampling call changes the buffer's size or address,
\* the stream count, the variant, the owning device or the initialization
\* calls.
C14_StateLifecycle ==
    /\ [](/\ bg.generator \in Variants
          /\ _type_size(bg.generator) > 0
          /\ bg.state_bytes = _type_size(bg.generator) * bg._size
          /\ Len(bg.init_calls) = 1
          /\ bg.init_calls[1].state_ptr = bg.state_ptr
          /\ bg.init_calls[1].size = bg._size
          /\ bg.init_calls[1].generator = bg.generator
          /\ bg.init_calls[1].seed = bg._seed)
    /\ [][bg' = bg]_vars

\* C14 witness: a bit generator of two streams after a sampling call that
\* invoked kernels on its state
C14_Witness ==
    \E t \in Threads :
        /\ pc[t] = "done" /\ status[t] = "ok"
        /\ bg._size = 2 /\ bg.state_bytes = 2 * _type_size(bg.generator)
        /\ Len(MyLog(t)) >= 2
        /\ stateAdv[1] > 0

\* invocations that agree in all but the caller, the state buffer's address,
\* the device and the stream
SameInvocation(e1, e2) ==
    /\ e1.i = e2.i /\ e1.kernel = e2.kernel /\ e1.generator = e2.generator
    /\ e1.off = e2.off /\ e1.size = e2.size /\ e1.args = e2.args
    /\ e1.adv = e2.adv

C16_AbortOnKernelFailure ==
    /\ [](\A t \in Threads :
             status[t] = "KernelInvocationError" =>
                 /\ pc[t] = "done"
                 /\ ret[t] = NoArray
                 /\ Len(MyLog(t)) = loc[t].i
                 /\ \A k \in 1 .. Len(MyLog(t)) : MyLog(t)[k].i = k - 1)
    /\ [][\A t \in Threads :
             /\ status'[t] = "KernelInvocationError"
                    /\ status[t] # "KernelInvocationError" =>
                        log' = log /\ y' = y /\ stateAdv' = stateAdv
             /\ status[t] = "KernelInvocationError" =>
                    /\ Len(log') <= Len(log)
                    /\ y'[t] \in {y[t], NoArray}
                    /\ stateAdv' = stateAdv]_vars

\* C16 witness: the invocation for chunk 1 of three has failed after chunk 0
\* was written
C16_Witness ==
    \E t \in Threads :
        /\ status[t] = "KernelInvocationError"
        /\ loc[t].i = 1 /\ loc[t].chunks = 3
        /\ Len(MyLog(t)) = 1
        /\ y[t].data[1] # Unwritten

\* C17: with state_size() = 0 no call fails on a division by the stream
\* count, and a dispatch that has returned issued exactly one invocation, at
\* offset 0 with the element count of the whole array.
C17_ZeroStreamCount ==
    \A t \in Threads :
        /\ status[t] # "ZeroDivisionError"
        /\ state_size(t) = 0 /\ DispatchReturned(t) =>
               /\ Len(MyLog(t)) = 1
               /\ MyLog(t)[1].i = 0
               /\ MyLog(t)[1].off = 0
               /\ MyLog(t)[1].size = OutSize(t)
               /\ \A j \in 1 .. Len(y[t].data) : y[t].data[j] # Unwritten

\* C17 witness: a dispatch over several elements has returned with
\* state_size() = 0
C17_Witness ==
    \E t \in Threads :
        /\ state_size(t) = 0 /\ DispatchReturned(t)
        /\ OutSize(t) >= 2
        /\ Len(MyLog(t)) = 1

\* C18 (as claimed): a constructed variant reports state_size() > 0, and no
\* dispatch takes the single-launch branch.
C18_PositiveStreamCount ==
    \A t \in Threads :
        /\ state_size(t) > 0
        /\ pc[t] # "single"

\* C19: every invocation for a one-dimensional array of N elements, with
\* stream count S > 0, has chunkSize >= 1 and offset + chunkSize <= N.
C19_InBoundsLaunches ==
    \A k \in 1 .. Len(log) :
        LET e == log[k]
        IN  Len(y[e.t].shape) = 1 /\ state_size(e.t) > 0 =>
                /\ e.size >= 1
                /\ e.off >= 0
                /\ e.off + e.size <= OutSize(e.t)

\* C19 witness: the last of several invocations for a one-dimensional array
\* has been issued
C19_Witness ==
    \E t \in Threads :
        /\ Len(y[t].shape) = 1 /\ state_size(t) > 0
        /\ pc[t] = "epilogue"
        /\ Len(MyLog(t)) >= 2
        /\ MyLog(t)[Len(MyLog(t))].off > 0
====
